---------------------------- MODULE Spec2Model ----------------------------
(***************************************************************************)
(* Model of the realtime synchronisation and incremental cache layer of    *)
(* the browse view: the change-merge engine (mergeRealtimeChange), the     *)
(* subscription hook's debounce (useRealtimeSubscription), and the         *)
(* preload/cache coordinator (fetchAllTextures, cancelPreload,             *)
(* handleClearCache, handleDelete) of BrowseTextures.                      *)
(***************************************************************************)
EXTENDS Integers, Sequences, FiniteSets, TLC

(***************************************************************************)
(* Bounds of the model.                                                    *)
(***************************************************************************)
\* record ids are 1..MaxId
MaxId == 3
\* number of changes the remote collection undergoes in one behaviour
MaxEvents == 1
\* number of fetchAllTextures calls in one behaviour (the mount makes two)
MaxJobs == 3
\* length of the collections the merge engine is applied to
MaxLen == 2

\* const batchSize = 500 in fetchAllTextures, scaled down so that a
\* collection of MaxId records spans several batches
batchSize == 2

Ids == 1..MaxId
Vers == {0, 1}

(***************************************************************************)
(* Records and collections.  A record is a function from field names to    *)
(* values; a stored row has all of id, v (a mutable counter such as        *)
(* upvotes) and w (another mutable field).  A nullable collection is       *)
(* [isNull, items].                                                        *)
(***************************************************************************)
Rec(i, n) == [id |-> i, v |-> n, w |-> 0]
NoRecord == [id |-> 0]
Null == [isNull |-> TRUE, items |-> <<>>]
Some(s) == [isNull |-> FALSE, items |-> s]

IdsOf(s) == {s[k].id : k \in 1..Len(s)}
HasId(s, i) == \E k \in 1..Len(s) : s[k].id = i
\* number of positions of s that hold id i
Copies(s, i) == Cardinality({k \in 1..Len(s) : s[k].id = i})
DistinctIds(s) == \A k, l \in 1..Len(s) : s[k].id = s[l].id => k = l

RECURSIVE FilterOut(_, _)
\* current.filter(item => item.id !== i)
FilterOut(s, i) ==
  IF s = <<>> THEN <<>>
  ELSE IF Head(s).id = i THEN FilterOut(Tail(s), i)
       ELSE <<Head(s)>> \o FilterOut(Tail(s), i)

\* { ...item, ...newRecord }
ShallowMerge(item, newRecord) ==
  [f \in (DOMAIN item) \cup (DOMAIN newRecord) |->
     IF f \in DOMAIN newRecord THEN newRecord[f] ELSE item[f]]

\* one realtime payload: eventType, payload.new and payload.old (either may
\* be missing)
Payload(t, hn, n, ho, o) ==
  [eventType |-> t, hasNew |-> hn, new |-> n, hasOld |-> ho, old |-> o]

\* mutant: the insert appends without looking for the id
MergeInsert_NoExistsCheck(items, newRecord) == Append(items, newRecord)

MergeInsert(items, newRecord) ==
  IF HasId(items, newRecord.id) THEN items ELSE Append(items, newRecord)

\* mutant: the update replaces the record instead of merging into it
MergeUpdate_Replace(items, newRecord) ==
  [k \in 1..Len(items) |->
     IF items[k].id = newRecord.id THEN newRecord ELSE items[k]]

MergeUpdate(items, newRecord) ==
  [k \in 1..Len(items) |->
     IF items[k].id = newRecord.id THEN ShallowMerge(items[k], newRecord)
     ELSE items[k]]

\* mutant: the delete drops the first record instead of the matching one
MergeDelete_DropFirst(items, oldRecord) ==
  IF items = <<>> THEN items ELSE Tail(items)

\* mutant: the delete keeps the matching record and drops the others
MergeDelete_Inverted(items, oldRecord) ==
  SelectSeq(items, LAMBDA r : r.id = oldRecord.id)

MergeDelete(items, oldRecord) == FilterOut(items, oldRecord.id)

\* mutant: a null collection is taken for an empty one
mergeRealtimeChange_NullAsEmpty(current, eventType, hasNew, newRecord, hasOld, oldRecord) ==
  CASE eventType = "INSERT" ->
         IF hasNew THEN Some(MergeInsert(current.items, newRecord)) ELSE Some(current.items)
    [] eventType = "UPDATE" ->
         IF hasNew THEN Some(MergeUpdate(current.items, newRecord)) ELSE Some(current.items)
    [] eventType = "DELETE" ->
         IF hasOld THEN Some(MergeDelete(current.items, oldRecord)) ELSE Some(current.items)
    [] OTHER -> Some(current.items)

\* mergeRealtimeChange(current, eventType, newRecord?, oldRecord?)
mergeRealtimeChange(current, eventType, hasNew, newRecord, hasOld, oldRecord) ==
  IF current.isNull THEN Null
  ELSE CASE eventType = "INSERT" ->
              IF hasNew THEN Some(MergeInsert(current.items, newRecord)) ELSE current
         [] eventType = "UPDATE" ->
              IF hasNew THEN Some(MergeUpdate(current.items, newRecord)) ELSE current
         [] eventType = "DELETE" ->
              IF hasOld THEN Some(MergeDelete(current.items, oldRecord)) ELSE current
         [] OTHER -> current


(***************************************************************************)
(* Persistent cache store (lib/cache): one entry, key 'all_textures'.      *)
(* Null stands for "no entry".                                             *)
(***************************************************************************)
\* getCache(key): the stored entry, or null on a cold start
getCache(store) == store
\* setCache(key, value)
setCache(store, value) == Some(value)
\* clearCache(key)
clearCache(store) == Null
\* the value an update's function receives: what is stored, or the empty
\* default
CacheCurrent(store) == IF store.isNull THEN Some(<<>>) ELSE store

(***************************************************************************)
(* State.                                                                  *)
(***************************************************************************)
VARIABLES
  remote,          \* the approved rows at the server, newest first
  nEvents,         \* changes the remote collection has undergone
  mounted,         \* the view's effects have run
  contentType,     \* "textures" | "packs"
  allTextures,     \* the working dataset (nullable collection)
  cache,           \* the cache store's 'all_textures' entry
  preloadLoading, preloadLoaded, preloadTotal,
  aborted,         \* preloadAbortRef.current.aborted
  jobs,            \* the fetchAllTextures calls, by call number
  nJobs,           \* fetchAllTextures calls made so far
  debounce,        \* debounceTimeoutRef of the textures subscription
  clearing,        \* handleClearCache is awaiting clearCache
  fin,             \* history: the last preload job that left its batch loop
  disp,            \* history: the last callback the subscription invoked
  deleted,         \* history: ids whose Delete was dispatched to a loaded
                   \* dataset, with no Insert dispatched since
  current,         \* merge engine: the collection it is applied to
  evs,             \* merge engine: the two events applied, in order
  mpc,             \* merge engine: "start" | "once" | "twice"
  once, twice,     \* merge engine: the result after evs[1], then evs[2]
  recv,            \* notifications among evs the channel handler received
  torn,            \* the view was unmounted
  storeDown,       \* the cache store fails: setCache rejects, getCache
                   \* rejects or answers null
  filterFetch,     \* history: the handler that last called fetchFilterOptions
  currentPageTextures, hasMoreTextures,
  searchTerm, filterCategory, sortCategory, sortDirection,
  nLoadMore,       \* history: loadMore() calls since the inputs last changed
  pageBefore,      \* history: the page index when the inputs last changed
  textures,        \* the pages fetched by fetchTextures (the fallback list)
  loadingMore,
  pageReqs,        \* the fetchTextures requests outstanding
  hook,            \* useRealtimeSubscription's refs, and its history
  rcvd,            \* history: the notifications the channel handler received
  winStart         \* history: index in rcvd of the first notification of the
                   \* debounce window that is open, or was open last

cvars == <<remote, nEvents, mounted, contentType, allTextures, cache,
           preloadLoading, preloadLoaded, preloadTotal, aborted, jobs, nJobs,
           debounce, clearing, fin, disp, deleted>>
mvars == <<current, evs, mpc, once, twice, recv>>
pvars == <<currentPageTextures, hasMoreTextures, searchTerm, filterCategory,
           sortCategory, sortDirection, nLoadMore, pageBefore>>
hvars == <<hook, rcvd, winStart>>
fvars == <<textures, loadingMore, pageReqs>>
nvars == <<torn, storeDown, pvars, hvars, fvars>>
vars == <<cvars, mvars, nvars, filterFetch>>

JobIds == 1..MaxJobs
\* a call's locals: its position, the allTextures its closure captured
\* (closLoaded), the pending getCache result, cachedTextures, combined;
\* history: cancelPreload ran during the call (cancelled), another call was
\* unfinished when this one was made (overlap), batches fetched (nBatches)
IdleJob == [pc |-> "idle", closLoaded |-> FALSE, cacheRes |-> Null,
            cachedTextures |-> <<>>, combined |-> <<>>,
            cancelled |-> FALSE, overlap |-> FALSE, nBatches |-> 0]
DoneJob == [IdleJob EXCEPT !.pc = "done"]

Running(job) == job.pc \in {"getCache", "count", "batch", "setCache"}
\* a count or batch request of the call is outstanding
Requesting(job) == job.pc \in {"count", "batch"}

NoPayload == [eventType |-> "NONE", hasNew |-> FALSE, new |-> NoRecord,
              hasOld |-> FALSE, old |-> NoRecord]
NoTimer == [pending |-> FALSE, payload |-> NoPayload]
Timer(p) == [pending |-> TRUE, payload |-> p]

NoFin == [job |-> 0, cached |-> <<>>, fetched |-> <<>>, merged |-> <<>>,
          why |-> "none", cancelled |-> FALSE, wrote |-> FALSE,
          nBatches |-> 0]
NoDisp == [n |-> 0, payload |-> NoPayload, allBefore |-> Null, cacheBefore |-> Null]

\* the guard of fetchAllTextures reads the allTextures of the render that
\* created the calling effect
Loaded(all) == ~all.isNull /\ Len(all.items) > 0

\* rows from..to of the ordered remote collection (.range(from, to))
Range(rows, from, to) ==
  IF from + 1 > Len(rows) THEN <<>>
  ELSE SubSeq(rows, from + 1, IF to + 1 < Len(rows) THEN to + 1 ELSE Len(rows))

RECURSIVE FilterNotIn(_, _)
\* cachedTextures.filter(t => !idSet.has(t.id))
FilterNotIn(s, idSet) ==
  IF s = <<>> THEN <<>>
  ELSE IF Head(s).id \in idSet THEN FilterNotIn(Tail(s), idSet)
       ELSE <<Head(s)>> \o FilterNotIn(Tail(s), idSet)

\* const mergedTextures = [...combined, ...cachedTextures.filter(...)]
MergedTextures(combined, cachedTextures) ==
  combined \o FilterNotIn(cachedTextures, IdsOf(combined))

\* Every state update re-renders the view; the subscription's callbacks are
\* new functions on every render, so the hook's re-subscribe effect runs
\* unsubscribe(), which clears a pending debounce timer.
Resubscribe == debounce' = NoTimer

\* <<remote collection, cache entry>> at the start of a session: a cold
\* start on three rows; a warm start whose cache holds a stale copy of row
\* 1 and a row 3 that is no longer approved, and lacks the new row 2
InitStates ==
  { <<(<<Rec(3, 0), Rec(2, 0), Rec(1, 0)>>), Null>>,
    <<(<<Rec(2, 0), Rec(1, 1)>>), Some(<<Rec(1, 0), Rec(3, 0)>>)>> }

\* the hook's refs: channelRef (is there a channel in it), the channels
\* open at the server, retryCountRef, retryTimeoutRef (the delay of the
\* pending timer it holds, 0 for none), and the retry timers still pending
\* that the ref no longer holds (strays); history: onError calls, the last
\* status the channel reported, whether unsubscribe() cleared a pending
\* debounce timer, whether "Max retries reached" was logged with no success
\* since, and the retry timers that fired
NoHook == [channelRef |-> FALSE, nChannels |-> 0, retryCount |-> 0,
           retryTimeout |-> 0, strays |-> 0, nErrors |-> 0,
           lastStatus |-> "none", cleared |-> FALSE, terminal |-> FALSE,
           nRetries |-> 0]

\* the parts of the state a specification does not use
IdlePage ==
  /\ currentPageTextures = 0
  /\ hasMoreTextures = TRUE
  /\ searchTerm = <<>>
  /\ filterCategory = {}
  /\ sortCategory = "upload_date"
  /\ sortDirection = "desc"
  /\ nLoadMore = 0
  /\ pageBefore = 0
IdleHook ==
  /\ hook = NoHook
  /\ rcvd = <<>>
  /\ winStart = 1
IdleFallback ==
  /\ textures = <<>>
  /\ loadingMore = FALSE
  /\ pageReqs = {}

InitView ==
  /\ storeDown = FALSE
  /\ nEvents = 0
  /\ contentType = "textures"
  /\ preloadLoading = FALSE
  /\ preloadLoaded = 0
  /\ preloadTotal = -1
  /\ aborted = FALSE
  /\ jobs = [j \in JobIds |-> IdleJob]
  /\ debounce = NoTimer
  /\ clearing = FALSE
  /\ fin = NoFin
  /\ disp = NoDisp
  /\ deleted = {}

\* the view before its effects run, on one of the sessions of InitStates
Init ==
  /\ InitView
  /\ IdlePage /\ IdleHook /\ IdleFallback /\ torn = FALSE /\ filterFetch = "none"
  /\ \E st \in InitStates : remote = st[1] /\ cache = st[2]
  /\ mounted = FALSE
  /\ allTextures = Null
  /\ nJobs = 0
  /\ current = Null
  /\ evs = <<NoPayload, NoPayload>>
  /\ mpc = "start"
  /\ once = Null
  /\ twice = Null
  /\ recv = 0

(***************************************************************************)
(* fetchAllTextures.                                                       *)
(***************************************************************************)
\* the call up to its first await: reset the abort flag, issue getCache
StartJob(js, j) ==
  [js EXCEPT ![j] = [IdleJob EXCEPT !.pc = "getCache",
                                    !.closLoaded = Loaded(allTextures),
                                    !.cacheRes = getCache(cache),
                                    !.overlap = \E k \in JobIds : Running(js[k])]]

\* the two effects of the first render: the contentType effect, then the
\* mount effect; each calls fetchAllTextures
Mount ==
  /\ ~mounted /\ ~torn
  /\ mounted' = TRUE
  /\ aborted' = FALSE
  /\ jobs' = StartJob(StartJob(jobs, 1), 2)
  /\ nJobs' = 2
  /\ UNCHANGED <<remote, nEvents, contentType, allTextures, cache,
                 preloadLoading, preloadLoaded, preloadTotal, debounce,
                 clearing, fin, disp, deleted, mvars, nvars>>
  /\ filterFetch' = "mount"

\* the Packs tab
SwitchToPacks ==
  /\ mounted /\ contentType = "textures"
  /\ contentType' = "packs"
  /\ textures' = <<>>
  /\ Resubscribe
  /\ UNCHANGED <<remote, nEvents, mounted, allTextures, cache, preloadLoading,
                 preloadLoaded, preloadTotal, aborted, jobs, nJobs, clearing,
                 fin, disp, deleted, mvars, torn, storeDown, pvars, hvars, loadingMore,
                 pageReqs, filterFetch>>

\* the Textures tab: the contentType effect calls fetchAllTextures
SwitchToTextures ==
  /\ mounted /\ contentType = "packs"
  /\ nJobs < MaxJobs
  /\ contentType' = "textures"
  /\ aborted' = FALSE
  /\ jobs' = StartJob(jobs, nJobs + 1)
  /\ nJobs' = nJobs + 1
  /\ textures' = <<>>
  /\ Resubscribe
  /\ UNCHANGED <<remote, nEvents, mounted, allTextures, cache, preloadLoading,
                 preloadLoaded, preloadTotal, clearing, fin, disp, deleted, mvars,
                 torn, storeDown, pvars, hvars, loadingMore, pageReqs>>
  /\ filterFetch' = "contentType"

\* getCache resolved: publish a non-empty cached collection, then the
\* "already loaded" guard, then the count request; or getCache rejected
AfterGetCache(j) ==
  LET job == jobs[j]
      \* a failing store rejects, or answers null
      res == IF storeDown THEN Null ELSE job.cacheRes
      hit == ~res.isNull /\ Len(res.items) > 0
      cached == IF hit THEN res.items ELSE <<>>
      all1 == IF hit THEN Some(cached) ELSE allTextures
      loaded1 == IF hit THEN Len(cached) ELSE preloadLoaded
      total1 == IF hit THEN Len(cached) ELSE preloadTotal
  IN /\ job.pc = "getCache"
     /\ \/ \* getCache rejected: the catch clause, then the finally clause
           /\ storeDown
           /\ jobs' = [jobs EXCEPT ![j] = DoneJob]
           /\ preloadLoading' = FALSE
           /\ UNCHANGED <<allTextures, preloadLoaded, preloadTotal>>
        \/ /\ allTextures' = all1
           /\ IF job.closLoaded
              THEN \* return; the finally clause runs
                   /\ jobs' = [jobs EXCEPT ![j] = DoneJob]
                   /\ preloadLoading' = FALSE
                   /\ preloadLoaded' = loaded1
                   /\ preloadTotal' = total1
              ELSE /\ jobs' = [jobs EXCEPT ![j].pc = "count", ![j].cacheRes = Null,
                                           ![j].cachedTextures = cached]
                   /\ preloadLoading' = TRUE
                   /\ preloadLoaded' = IF cached = <<>> THEN 0 ELSE loaded1
                   /\ preloadTotal' = IF cached = <<>> THEN -1 ELSE total1
     /\ Resubscribe
     /\ UNCHANGED <<remote, nEvents, mounted, contentType, cache, aborted,
                    nJobs, clearing, fin, disp, deleted, mvars, nvars, filterFetch>>

\* the code after the batch loop: merge with the cached collection, publish,
\* and save unless aborted
\* (why: the loop was left on an "error", at the "end" of the data, or on
\* an "abort"; n: batches fetched)
Finish(j, combined, why, n) ==
  LET merged == MergedTextures(combined, jobs[j].cachedTextures)
  IN /\ allTextures' = Some(merged)
     /\ preloadLoaded' = Len(merged)
     /\ preloadTotal' = Len(merged)
     /\ fin' = [job |-> j, cached |-> jobs[j].cachedTextures, fetched |-> combined,
                merged |-> merged, why |-> why,
                cancelled |-> jobs[j].cancelled, wrote |-> ~aborted,
                nBatches |-> n]
     /\ IF ~aborted
        THEN \* a rejection of setCache is caught and logged
             /\ cache' = IF storeDown THEN cache ELSE setCache(cache, merged)
             /\ jobs' = [jobs EXCEPT ![j] = [DoneJob EXCEPT !.pc = "setCache"]]
             /\ UNCHANGED preloadLoading
        ELSE /\ jobs' = [jobs EXCEPT ![j] = DoneJob]
             /\ preloadLoading' = FALSE
             /\ UNCHANGED cache
     /\ Resubscribe

\* the count request resolved (count is null on an error); first pass of
\* the batch loop
AfterCount(j) ==
  /\ jobs[j].pc = "count"
  /\ \E ok \in BOOLEAN :
       LET total == IF ok THEN Len(remote) ELSE -1
       IN IF aborted
          THEN /\ Finish(j, <<>>, "abort", 0)
          ELSE /\ jobs' = [jobs EXCEPT ![j].pc = "batch"]
               /\ preloadTotal' = IF total # -1 THEN total ELSE preloadTotal
               /\ IF total # -1 /\ total # preloadTotal
                  THEN Resubscribe ELSE UNCHANGED debounce
               /\ UNCHANGED <<allTextures, cache, preloadLoading, preloadLoaded, fin>>
  /\ UNCHANGED <<remote, nEvents, mounted, contentType, aborted, nJobs,
                 clearing, disp, deleted, mvars, nvars, filterFetch>>

\* a batch request resolved: error, empty, short or full batch
AfterBatch(j) ==
  LET job == jobs[j]
      from == Len(job.combined)
      data == Range(remote, from, from + batchSize - 1)
      combined == job.combined \o data
  IN /\ job.pc = "batch"
     /\ \/ \* if (error) break
           Finish(j, job.combined, "error", job.nBatches)
        \/ \* if (!data || data.length === 0) break
           /\ data = <<>>
           /\ Finish(j, job.combined, "end", job.nBatches)
        \/ \* if (data.length < batchSize) break
           /\ data # <<>> /\ Len(data) < batchSize
           /\ Finish(j, combined, "end", job.nBatches + 1)
        \/ \* if (preloadAbortRef.current.aborted) break
           /\ Len(data) = batchSize /\ aborted
           /\ Finish(j, combined, "abort", job.nBatches + 1)
        \/ \* the next batch request
           /\ Len(data) = batchSize /\ ~aborted
           /\ jobs' = [jobs EXCEPT ![j].combined = combined,
                                   ![j].nBatches = job.nBatches + 1]
           /\ UNCHANGED <<allTextures, cache, preloadLoading, preloadLoaded,
                          preloadTotal, debounce, fin>>
     /\ UNCHANGED <<remote, nEvents, mounted, contentType, aborted, nJobs,
                    clearing, disp, deleted, mvars, nvars, filterFetch>>

\* mutant: no finally clause, preloadLoading is left as it is
AfterSetCache_NoFinally(j) ==
  /\ jobs[j].pc = "setCache"
  /\ jobs' = [jobs EXCEPT ![j] = DoneJob]
  /\ UNCHANGED <<remote, nEvents, mounted, contentType, allTextures, cache,
                 preloadLoading, preloadLoaded, preloadTotal, aborted, nJobs,
                 debounce, clearing, fin, disp, deleted, mvars, nvars,
                 filterFetch>>

\* setCache resolved (or failed, which is caught); the finally clause
AfterSetCache(j) ==
  /\ jobs[j].pc = "setCache"
  /\ jobs' = [jobs EXCEPT ![j] = DoneJob]
  /\ preloadLoading' = FALSE
  /\ IF preloadLoading THEN Resubscribe ELSE UNCHANGED debounce
  /\ UNCHANGED <<remote, nEvents, mounted, contentType, allTextures, cache,
                 preloadLoaded, preloadTotal, aborted, nJobs, clearing, fin,
                 disp, deleted, mvars, nvars, filterFetch>>

\* the Stop button, rendered while preloadLoading
cancelPreload ==
  /\ mounted /\ preloadLoading
  /\ aborted' = TRUE
  /\ preloadLoading' = FALSE
  /\ jobs' = [j \in JobIds |->
                IF Running(jobs[j]) THEN [jobs[j] EXCEPT !.cancelled = TRUE]
                ELSE jobs[j]]
  /\ Resubscribe
  /\ UNCHANGED <<remote, nEvents, mounted, contentType, allTextures, cache,
                 preloadLoaded, preloadTotal, nJobs, clearing, fin, disp,
                 deleted, mvars, nvars, filterFetch>>

(***************************************************************************)
(* handleClearCache and handleDelete.                                      *)
(***************************************************************************)
\* a fetchTextures(page, append) call whose range request is outstanding
PageReq(page, append) == [page |-> page, append |-> append]

\* the Clear Cache button, rendered while preloadLoading: up to the await
handleClearCache ==
  /\ mounted /\ preloadLoading /\ ~clearing
  /\ cache' = clearCache(cache)
  /\ clearing' = TRUE
  /\ UNCHANGED <<remote, nEvents, mounted, contentType, allTextures,
                 preloadLoading, preloadLoaded, preloadTotal, aborted, jobs,
                 nJobs, debounce, fin, disp, deleted, mvars, nvars, filterFetch>>

\* mutant: the working dataset and the counters survive the clear
AfterClearCache_KeepsDataset ==
  /\ clearing
  /\ clearing' = FALSE
  /\ Resubscribe
  /\ UNCHANGED <<remote, nEvents, mounted, contentType, allTextures, cache,
                 preloadLoading, preloadLoaded, preloadTotal, aborted, jobs,
                 nJobs, fin, disp, deleted, mvars, nvars>>
  /\ filterFetch' = "handleClearCache"

\* clearCache resolved: reset the working dataset and the counters, reload
\* the first page (fetchTextures(0, false)) and the filter options
AfterClearCache ==
  /\ clearing
  /\ clearing' = FALSE
  /\ allTextures' = Null
  /\ preloadLoaded' = 0
  /\ preloadTotal' = -1
  /\ textures' = <<>>
  /\ pageReqs' = pageReqs \cup {PageReq(0, FALSE)}
  /\ Resubscribe
  /\ UNCHANGED <<remote, nEvents, mounted, contentType, cache, preloadLoading,
                 aborted, jobs, nJobs, fin, disp, deleted, mvars, torn,
                 storeDown, pvars, hvars, loadingMore>>
  /\ filterFetch' = "handleClearCache"

DeletePayload(i) == Payload("DELETE", FALSE, NoRecord, TRUE, [id |-> i])

\* handleDelete(id): the row is deleted at the server, then removed from the
\* working dataset; the server's notification reaches the channel before or
\* after the re-render
handleDelete(i) ==
  /\ mounted /\ contentType = "textures"
  /\ ~allTextures.isNull /\ HasId(allTextures.items, i)
  /\ nEvents < MaxEvents
  /\ nEvents' = nEvents + 1
  /\ remote' = FilterOut(remote, i)
  /\ allTextures' = Some(FilterOut(allTextures.items, i))
  /\ textures' = FilterOut(textures, i)
  /\ \/ debounce' = NoTimer
     \/ /\ HasId(remote, i)
        /\ debounce' = Timer(DeletePayload(i))
  /\ UNCHANGED <<mounted, contentType, cache, preloadLoading, preloadLoaded,
                 preloadTotal, aborted, jobs, nJobs, clearing, fin, disp,
                 deleted, mvars, torn, storeDown, pvars, hvars, loadingMore, pageReqs>>
  /\ filterFetch' = "handleDelete"

(***************************************************************************)
(* The remote collection changes; the channel handler receives the         *)
(* notification and hands it to the debounce of its kind, which clears the *)
(* pending timer and sets a new one.                                       *)
(***************************************************************************)
debouncedInsert(payload) == debounce' = Timer(payload)
\* mutant: a notification that arrives while the timer is pending is dropped
debouncedUpdate_KeepFirst(payload) ==
  debounce' = IF debounce.pending THEN debounce ELSE Timer(payload)
debouncedUpdate(payload) == debounce' = Timer(payload)
debouncedDelete(payload) == debounce' = Timer(payload)

\* a row becomes approved; it takes the lowest id not in the collection
RemoteInsert(i) ==
  /\ mounted /\ nEvents < MaxEvents
  /\ ~HasId(remote, i) /\ \A k \in Ids : k < i => HasId(remote, k)
  /\ nEvents' = nEvents + 1
  /\ remote' = <<Rec(i, 0)>> \o remote
  /\ debouncedInsert(Payload("INSERT", TRUE, Rec(i, 0), FALSE, NoRecord))
  /\ UNCHANGED <<mounted, contentType, allTextures, cache, preloadLoading,
                 preloadLoaded, preloadTotal, aborted, jobs, nJobs, clearing,
                 fin, disp, deleted, mvars, nvars, filterFetch>>

RemoteUpdate(i) ==
  /\ mounted /\ nEvents < MaxEvents
  /\ \E k \in 1..Len(remote) :
       /\ remote[k].id = i /\ remote[k].v = 0
       /\ remote' = [remote EXCEPT ![k] = Rec(i, 1)]
  /\ nEvents' = nEvents + 1
  /\ debouncedUpdate(Payload("UPDATE", TRUE, Rec(i, 1), TRUE, [id |-> i]))
  /\ UNCHANGED <<mounted, contentType, allTextures, cache, preloadLoading,
                 preloadLoaded, preloadTotal, aborted, jobs, nJobs, clearing,
                 fin, disp, deleted, mvars, nvars, filterFetch>>

RemoteDelete(i) ==
  /\ mounted /\ nEvents < MaxEvents
  /\ HasId(remote, i)
  /\ nEvents' = nEvents + 1
  /\ remote' = FilterOut(remote, i)
  /\ debouncedDelete(DeletePayload(i))
  /\ UNCHANGED <<mounted, contentType, allTextures, cache, preloadLoading,
                 preloadLoaded, preloadTotal, aborted, jobs, nJobs, clearing,
                 fin, disp, deleted, mvars, nvars, filterFetch>>

\* updateCacheEntry('all_textures', fn): read-modify-write of the entry
updateCacheEntry(store, p) ==
  mergeRealtimeChange(CacheCurrent(store), p.eventType, p.hasNew, p.new, p.hasOld, p.old)

\* setAllTextures(prev => prev ? mergeRealtimeChange(prev, ...) : null)
MergeIntoAll(prev, p) ==
  IF ~prev.isNull
  THEN mergeRealtimeChange(prev, p.eventType, p.hasNew, p.new, p.hasOld, p.old)
  ELSE Null

\* the payload passes the callback's guard (payload.new / payload.old)
Accepted(p) ==
  \/ p.eventType \in {"INSERT", "UPDATE"} /\ p.hasNew
  \/ p.eventType = "DELETE" /\ p.hasOld

\* onInsert / onUpdate / onDelete of the textures subscription
Callback(p) ==
  IF Accepted(p)
  THEN /\ allTextures' = MergeIntoAll(allTextures, p)
       /\ cache' = updateCacheEntry(cache, p)
  ELSE UNCHANGED <<allTextures, cache>>

\* the debounce timer fires and invokes the callback of the pending
\* notification's kind
DebounceFire ==
  LET p == debounce.payload
  IN /\ debounce.pending
     /\ Callback(p)
     /\ debounce' = NoTimer
     /\ disp' = [n |-> disp.n + 1, payload |-> p, allBefore |-> allTextures,
                 cacheBefore |-> cache]
     /\ deleted' = IF p.eventType = "DELETE" /\ p.hasOld /\ ~allTextures.isNull
                   THEN deleted \cup {p.old.id}
                   ELSE IF p.eventType = "INSERT" /\ p.hasNew
                        THEN deleted \ {p.new.id}
                        ELSE deleted
     /\ UNCHANGED <<remote, nEvents, mounted, contentType, preloadLoading,
                    preloadLoaded, preloadTotal, aborted, jobs, nJobs, clearing,
                    fin, mvars, nvars, filterFetch>>

\* the view with its preload jobs and its subscription
Next ==
  \/ Mount
  \/ \E j \in JobIds : AfterGetCache(j)
  \/ \E j \in JobIds : AfterCount(j)
  \/ \E j \in JobIds : AfterBatch(j)
  \/ \E j \in JobIds : AfterSetCache(j)
  \/ cancelPreload
  \/ \E i \in Ids : handleDelete(i)
  \/ \E i \in Ids : RemoteInsert(i)
  \/ \E i \in Ids : RemoteUpdate(i)
  \/ \E i \in Ids : RemoteDelete(i)
  \/ DebounceFire

Spec == Init /\ [][Next]_vars

\* a request of the call resolves and the call runs to its next await
JobStep(j) ==
  \/ AfterGetCache(j)
  \/ AfterCount(j)
  \/ AfterBatch(j)
  \/ AfterSetCache(j)

\* the same view, where every request of every call resolves in the end
SpecLive == Spec /\ \A j \in JobIds : WF_vars(JobStep(j))

(***************************************************************************)
(* The cache store fails and recovers while the preload runs.              *)
(***************************************************************************)
StoreFails ==
  /\ ~storeDown
  /\ storeDown' = TRUE
  /\ UNCHANGED <<cvars, mvars, torn, pvars, hvars, fvars, filterFetch>>

StoreRecovers ==
  /\ storeDown
  /\ storeDown' = FALSE
  /\ UNCHANGED <<cvars, mvars, torn, pvars, hvars, fvars, filterFetch>>

NextStore ==
  \/ Mount
  \/ \E j \in JobIds : AfterGetCache(j)
  \/ \E j \in JobIds : AfterCount(j)
  \/ \E j \in JobIds : AfterBatch(j)
  \/ \E j \in JobIds : AfterSetCache(j)
  \/ StoreFails
  \/ StoreRecovers

SpecStore == Init /\ [][NextStore]_vars

\* the view with its preload jobs, its tabs and its buttons, on a remote
\* collection that does not change
NextTabs ==
  \/ Mount
  \/ SwitchToPacks
  \/ SwitchToTextures
  \/ \E j \in JobIds : AfterGetCache(j)
  \/ \E j \in JobIds : AfterCount(j)
  \/ \E j \in JobIds : AfterBatch(j)
  \/ \E j \in JobIds : AfterSetCache(j)
  \/ cancelPreload
  \/ handleClearCache
  \/ AfterClearCache

SpecTabs == Init /\ [][NextTabs]_vars

\* The view unmounts.  BrowseTextures registers no cleanup for its preload:
\* the only cleanup that runs is the subscription hook's unsubscribe().
\* The pending calls of fetchAllTextures go on; React discards the state
\* updates they make, and allTextures then holds the argument of their last
\* setAllTextures call.
Unmount ==
  /\ mounted
  /\ mounted' = FALSE
  /\ torn' = TRUE
  /\ Resubscribe
  /\ UNCHANGED <<remote, nEvents, contentType, allTextures, cache,
                 preloadLoading, preloadLoaded, preloadTotal, aborted, jobs,
                 nJobs, clearing, fin, disp, deleted, mvars, storeDown, pvars,
                 hvars, fvars, filterFetch>>

\* the view with its preload jobs, until and after it unmounts, on a remote
\* collection that does not change
NextUnmount ==
  \/ Mount
  \/ \E j \in JobIds : AfterGetCache(j)
  \/ \E j \in JobIds : AfterCount(j)
  \/ \E j \in JobIds : AfterBatch(j)
  \/ \E j \in JobIds : AfterSetCache(j)
  \/ cancelPreload
  \/ Unmount

SpecUnmount == Init /\ [][NextUnmount]_vars

(***************************************************************************)
(* The merge engine and the subscription's debounce on their own: a        *)
(* collection and two events drawn from bounded sets.  The events are      *)
(* applied directly (ApplyOnce, ApplyTwice), and are delivered to the      *)
(* channel handler of a mounted view whose working dataset and cache hold  *)
(* the collection (Receive, DebounceFire).                                 *)
(***************************************************************************)
Fields == {"v", "w"}
\* rows: every field present
Rows == {[id |-> i, v |-> n, w |-> m] : i \in Ids, n \in Vers, m \in Vers}
\* an event's record: the id and any of the other fields
PartialRecords ==
  {[id |-> i] : i \in Ids}
    \cup {[id |-> i, v |-> n] : i \in Ids, n \in Vers}
    \cup {[id |-> i, w |-> m] : i \in Ids, m \in Vers}
    \cup Rows
\* collections of at most MaxLen rows with distinct ids
Collections ==
  {s \in UNION {[1..n -> Rows] : n \in 0..MaxLen} : DistinctIds(s)}
Events ==
  {Payload(t, TRUE, r, FALSE, NoRecord) : t \in {"INSERT", "UPDATE"}, r \in PartialRecords}
    \cup {DeletePayload(i) : i \in Ids}
    \cup {Payload(t, FALSE, NoRecord, FALSE, NoRecord) : t \in {"INSERT", "UPDATE", "DELETE"}}
\* the id an event is about (0 when its record is missing)
EventId(p) == IF p.hasNew THEN p.new.id ELSE IF p.hasOld THEN p.old.id ELSE 0
\* the second event: the first again, or the Delete of the first one's row
Seconds(e) == {e} \cup (IF EventId(e) # 0 THEN {DeletePayload(EventId(e))} ELSE {})

InitMerge ==
  /\ InitView
  /\ IdlePage /\ IdleHook /\ IdleFallback /\ torn = FALSE /\ filterFetch = "none"
  /\ remote = <<>>
  /\ mounted = TRUE
  /\ nJobs = MaxJobs
  /\ current \in {Null} \cup {Some(c) : c \in Collections}
  /\ allTextures = current
  /\ cache = current
  /\ \E e \in Events : \E e2 \in Seconds(e) : evs = <<e, e2>>
  /\ mpc = "start"
  /\ once = Null
  /\ twice = Null
  /\ recv = 0

Apply(c, p) == mergeRealtimeChange(c, p.eventType, p.hasNew, p.new, p.hasOld, p.old)

ApplyOnce ==
  /\ mpc = "start"
  /\ mpc' = "once"
  /\ once' = Apply(current, evs[1])
  /\ UNCHANGED <<current, evs, twice, recv>>
  /\ UNCHANGED <<cvars, nvars, filterFetch>>

ApplyTwice ==
  /\ mpc = "once"
  /\ mpc' = "twice"
  /\ twice' = Apply(once, evs[2])
  /\ UNCHANGED <<current, evs, once, recv>>
  /\ UNCHANGED <<cvars, nvars, filterFetch>>

\* the channel handler: switch (payload.eventType)
Receive ==
  LET p == evs[recv + 1]
  IN /\ recv < 2
     /\ recv' = recv + 1
     /\ CASE p.eventType = "INSERT" -> debouncedInsert(p)
          [] p.eventType = "UPDATE" -> debouncedUpdate(p)
          [] p.eventType = "DELETE" -> debouncedDelete(p)
          [] OTHER -> UNCHANGED debounce
     /\ UNCHANGED <<current, evs, mpc, once, twice>>
     /\ UNCHANGED <<remote, nEvents, mounted, contentType, allTextures, cache,
                    preloadLoading, preloadLoaded, preloadTotal, aborted, jobs,
                    nJobs, clearing, fin, disp, deleted, nvars, filterFetch>>

NextMerge ==
  \/ ApplyOnce
  \/ ApplyTwice
  \/ Receive
  \/ DebounceFire

SpecMerge == InitMerge /\ [][NextMerge]_vars

(***************************************************************************)
(* The view composer on a loaded working dataset that does not change:     *)
(* filter, sort, visible window, loadMore and the page reset.  Of a        *)
(* texture's fields the model keeps the id, created_at, the votes, the     *)
(* category, the title, the description, the author and the aircraft.  A   *)
(* text is a sequence of letters; the search looks at the title, the       *)
(* description and the author (no term is a UUID or part of an id).        *)
(***************************************************************************)
\* rows of the largest dataset
MaxRows == 5
\* loadMore() calls between two changes of the inputs
MaxCalls == 3
\* pageSize (10 in the source, scaled down with the datasets)
pageSize == 2

Terms == {<<>>, <<"a">>}
Categories == {"a", "b"}
SortCategories == {"upload_date", "votes"}
SortDirections == {"asc", "desc"}

\* the datasets: n rows, created in the order of their ids or in a
\* scrambled order, with ties among the votes
Texture(k, scrambled) ==
  [id |-> k,
   created_at |-> IF scrambled THEN (k * 3) % 7 ELSE k,
   upvotes |-> k % 3, downvotes |-> 0,
   category |-> IF k % 2 = 0 THEN "a" ELSE "b",
   title |-> IF k % 3 = 0 THEN <<"a">> ELSE <<"b">>,
   description |-> <<"z">>, author |-> <<"z">>, aircraft |-> <<"z">>]
Datasets ==
  {[k \in 1..n |-> Texture(k, sc)] : n \in 0..MaxRows, sc \in BOOLEAN}

\* String.prototype.toLowerCase, on the letters the model uses
toLowerCase(str) ==
  [k \in 1..Len(str) |->
     CASE str[k] = "A" -> "a" [] str[k] = "B" -> "b" [] OTHER -> str[k]]

\* String.prototype.includes
Includes(str, term) ==
  \E k \in 0..(Len(str) - Len(term)) : SubSeq(str, k + 1, k + Len(term)) = term

\* calculateRelevance(texture, term)
calculateRelevance(texture, term) ==
  IF term = <<>> THEN 0
  ELSE LET lowerTerm == toLowerCase(term)
       IN (IF Includes(toLowerCase(texture.title), lowerTerm)
           THEN (IF toLowerCase(texture.title) = lowerTerm THEN 100 ELSE 50)
           ELSE 0)
          + (IF Includes(toLowerCase(texture.author), lowerTerm) THEN 30 ELSE 0)
          + (IF Includes(toLowerCase(texture.aircraft), lowerTerm) THEN 20 ELSE 0)
          + (IF Includes(toLowerCase(texture.description), lowerTerm) THEN 10 ELSE 0)

\* filteredTextures
Filtered(base, term, cats) ==
  SelectSeq(base, LAMBDA t : /\ \/ Includes(toLowerCase(t.title), toLowerCase(term))
                                \/ Includes(toLowerCase(t.description), toLowerCase(term))
                                \/ Includes(toLowerCase(t.author), toLowerCase(term))
                             /\ (cats = {} \/ t.category \in cats))

\* the comparator of sortedTextures
Compare(a, b, cat, dir) ==
  CASE cat = "relevance" ->
         calculateRelevance(b, searchTerm) - calculateRelevance(a, searchTerm)
    [] cat = "upload_date" ->
         IF dir = "desc" THEN b.created_at - a.created_at
                         ELSE a.created_at - b.created_at
    [] cat = "votes" ->
         LET aVotes == a.upvotes - a.downvotes
             bVotes == b.upvotes - b.downvotes
         IN IF dir = "desc" THEN bVotes - aVotes ELSE aVotes - bVotes
    [] OTHER -> 0

\* Array.prototype.sort is stable: x goes behind every element that does
\* not compare greater than it
RECURSIVE InsertSorted(_, _, _, _)
InsertSorted(s, x, cat, dir) ==
  IF s = <<>> THEN <<x>>
  ELSE IF Compare(Head(s), x, cat, dir) <= 0
       THEN <<Head(s)>> \o InsertSorted(Tail(s), x, cat, dir)
       ELSE <<x>> \o s
RECURSIVE Sorted(_, _, _)
Sorted(s, cat, dir) ==
  IF s = <<>> THEN <<>>
  ELSE InsertSorted(Sorted(SubSeq(s, 1, Len(s) - 1), cat, dir), s[Len(s)], cat, dir)

Min(a, b) == IF a < b THEN a ELSE b
\* sortedTextures.slice(0, (currentPageTextures + 1) * pageSize)
Slice(s, page) == SubSeq(s, 1, Min(Len(s), (page + 1) * pageSize))

baseTextures == IF allTextures.isNull THEN textures ELSE allTextures.items
filteredTextures == Filtered(baseTextures, searchTerm, filterCategory)
sortedTextures == Sorted(filteredTextures, sortCategory, sortDirection)
visibleTextures == Slice(sortedTextures, currentPageTextures)

\* mutant: the window is taken to have more when it just covers the total
HasMore_AtLeast(total, page) == total >= (page + 1) * pageSize

\* the effect on [filteredTextures, currentPageTextures]
HasMore(total, page) == total > (page + 1) * pageSize

\* the merge engine's variables, unused
IdleMerge ==
  /\ current = Null
  /\ evs = <<NoPayload, NoPayload>>
  /\ mpc = "start"
  /\ once = Null
  /\ twice = Null
  /\ recv = 0

\* a mounted view whose preload has published the dataset; the effects of
\* the render have run
InitPage ==
  /\ InitView /\ IdleMerge /\ IdleHook /\ IdleFallback
  /\ torn = FALSE /\ filterFetch = "mount"
  /\ remote = <<>>
  /\ cache = Null
  /\ mounted = TRUE
  /\ nJobs = MaxJobs
  /\ \E d \in Datasets : allTextures = Some(d)
  /\ currentPageTextures = 0
  /\ searchTerm = <<>>
  /\ filterCategory = {}
  /\ sortCategory = "upload_date"
  /\ sortDirection = "desc"
  /\ hasMoreTextures = HasMore(Len(filteredTextures), 0)
  /\ nLoadMore = 0
  /\ pageBefore = 0

\* loadMore(), textures branch.  hasMoreTextures is read as the effect on
\* [filteredTextures, currentPageTextures] left it in the render the handler
\* belongs to; without a working dataset fetchTextures(nextPage, true) sets
\* loadingMore and issues the range request of the next page
loadMore ==
  LET more == HasMore(Len(filteredTextures), currentPageTextures)
      go == more /\ ~loadingMore
      nextPage == currentPageTextures + 1
  IN /\ mounted /\ contentType = "textures"
     /\ nLoadMore < MaxCalls
     /\ nLoadMore' = nLoadMore + 1
     /\ currentPageTextures' = IF go THEN nextPage ELSE currentPageTextures
     /\ hasMoreTextures' = HasMore(Len(filteredTextures), currentPageTextures')
     /\ IF go /\ allTextures.isNull
        THEN /\ loadingMore' = TRUE
             /\ pageReqs' = pageReqs \cup {PageReq(nextPage, TRUE)}
        ELSE UNCHANGED <<loadingMore, pageReqs>>
     /\ UNCHANGED <<searchTerm, filterCategory, sortCategory, sortDirection,
                    pageBefore, textures>>
     /\ UNCHANGED <<cvars, mvars, torn, storeDown, hvars, filterFetch>>

\* mutant: the page survives a change of the inputs
ResetPage_Keep(page) == page

\* the effect on [searchTerm, filterAircraft, filterCategory, filterType,
\* sortCategory, sortDirection]
ResetPage(page) == 0

\* an input changed: the render's effects reset the page and recompute
\* hasMoreTextures
InputChanged ==
  /\ mounted /\ ~allTextures.isNull
  /\ currentPageTextures' = ResetPage(currentPageTextures)
  /\ hasMoreTextures' =
       HasMore(Len(Filtered(baseTextures, searchTerm', filterCategory')),
               currentPageTextures')
  /\ nLoadMore' = 0
  /\ pageBefore' = currentPageTextures
  /\ UNCHANGED <<cvars, mvars, torn, storeDown, hvars, fvars, filterFetch>>

setSearchTerm(term) ==
  /\ term # searchTerm
  /\ searchTerm' = term
  /\ UNCHANGED <<filterCategory, sortCategory, sortDirection>>
  /\ InputChanged

\* toggleFilter(value, filterCategory, setFilterCategory)
toggleFilter(value) ==
  /\ filterCategory' = IF value \in filterCategory
                       THEN filterCategory \ {value}
                       ELSE filterCategory \cup {value}
  /\ UNCHANGED <<searchTerm, sortCategory, sortDirection>>
  /\ InputChanged

setSortCategory(cat) ==
  /\ cat # sortCategory
  /\ sortCategory' = cat
  /\ UNCHANGED <<searchTerm, filterCategory, sortDirection>>
  /\ InputChanged

setSortDirection(dir) ==
  /\ dir # sortDirection
  /\ sortDirection' = dir
  /\ UNCHANGED <<searchTerm, filterCategory, sortCategory>>
  /\ InputChanged

NextPage ==
  \/ loadMore
  \/ \E term \in Terms : setSearchTerm(term)
  \/ \E value \in Categories : toggleFilter(value)
  \/ \E cat \in SortCategories : setSortCategory(cat)
  \/ \E dir \in SortDirections : setSortDirection(dir)

SpecPage == InitPage /\ [][NextPage]_vars

(***************************************************************************)
(* The fallback list: the pages that fetchTextures loads while there is no *)
(* working dataset, on a remote collection that does not change.           *)
(***************************************************************************)
\* the range request of a fetchTextures call resolved (ok: without error)
AfterFetchTextures(req) ==
  /\ req \in pageReqs
  /\ pageReqs' = pageReqs \ {req}
  /\ \E ok \in BOOLEAN :
       LET from == req.page * pageSize
           data == Range(remote, from, from + pageSize - 1)
           list == IF ~ok THEN textures
                   ELSE IF req.append THEN textures \o data ELSE data
           base == IF allTextures.isNull THEN list ELSE allTextures.items
       IN /\ textures' = list
          \* setHasMoreTextures(data.length === pageSize), then the effect
          \* on [filteredTextures, currentPageTextures] of the same render
          /\ hasMoreTextures' =
               HasMore(Len(Filtered(base, searchTerm, filterCategory)),
                       currentPageTextures)
  /\ loadingMore' = IF req.append THEN FALSE ELSE loadingMore
  /\ UNCHANGED <<currentPageTextures, searchTerm, filterCategory, sortCategory,
                 sortDirection, nLoadMore, pageBefore>>
  /\ UNCHANGED <<cvars, mvars, torn, storeDown, hvars, filterFetch>>

\* the approved rows at the server, newest first
RemoteTextures(n) == [k \in 1..n |-> Texture(n + 1 - k, FALSE)]

\* the view before its effects run: up to MaxRows rows at the server, and a
\* cache entry that is absent or holds the oldest row
InitFallback ==
  /\ InitView /\ IdleMerge /\ IdlePage /\ IdleHook /\ IdleFallback
  /\ torn = FALSE /\ filterFetch = "none"
  /\ \E n \in 0..MaxRows : remote = RemoteTextures(n)
  /\ cache \in {Null, Some(RemoteTextures(1))}
  /\ mounted = FALSE
  /\ allTextures = Null
  /\ nJobs = 0

\* the view with its preload jobs, its Clear Cache button, its fallback
\* list and loadMore
NextFallback ==
  \/ Mount
  \/ \E j \in JobIds : AfterGetCache(j)
  \/ \E j \in JobIds : AfterCount(j)
  \/ \E j \in JobIds : AfterBatch(j)
  \/ \E j \in JobIds : AfterSetCache(j)
  \/ handleClearCache
  \/ AfterClearCache
  \/ \E page \in 0..MaxCalls, append \in BOOLEAN :
       AfterFetchTextures(PageReq(page, append))
  \/ loadMore

SpecFallback == InitFallback /\ [][NextFallback]_vars

(***************************************************************************)
(* The relevance sort: a loaded dataset of textures whose title, author,   *)
(* aircraft and description match the search term or not.                  *)
(***************************************************************************)
\* rows of the largest dataset
MaxHits == 2

\* a title equal to the term, equal up to case, containing it, without it
Titles == {<<"a", "b">>, <<"A", "B">>, <<"x", "a", "b">>, <<"x">>}
\* an author, aircraft or description containing the term, or without it
Texts == {<<"a", "b">>, <<"x">>}
RelevanceTerms == {<<"a", "b">>, <<"A", "b">>}

Profiles == [title : Titles, author : Texts, aircraft : Texts, description : Texts]
\* the datasets: row k has id k and was created k-th
HitSets ==
  { [k \in DOMAIN f |-> [Texture(k, FALSE) EXCEPT !.title = f[k].title,
                                              !.author = f[k].author,
                                              !.aircraft = f[k].aircraft,
                                              !.description = f[k].description]] :
    f \in UNION {[1..n -> Profiles] : n \in 1..MaxHits} }

\* a mounted view whose preload has published the dataset and whose search
\* box holds a term
InitRelevance ==
  /\ InitView /\ IdleMerge /\ IdleHook /\ IdleFallback
  /\ torn = FALSE /\ filterFetch = "mount"
  /\ remote = <<>>
  /\ cache = Null
  /\ mounted = TRUE
  /\ nJobs = MaxJobs
  /\ \E d \in HitSets : allTextures = Some(d)
  /\ currentPageTextures = 0
  /\ searchTerm \in RelevanceTerms
  /\ filterCategory = {}
  /\ sortCategory = "upload_date"
  /\ sortDirection = "desc"
  /\ hasMoreTextures = HasMore(Len(filteredTextures), 0)
  /\ nLoadMore = 0
  /\ pageBefore = 0

NextRelevance ==
  \/ loadMore
  \/ \E cat \in {"relevance", "upload_date"} : setSortCategory(cat)
  \/ \E dir \in SortDirections : setSortDirection(dir)

SpecRelevance == InitRelevance /\ [][NextRelevance]_vars

(***************************************************************************)
(* useRealtimeSubscription: the channel, the retries and the debounce of   *)
(* the textures subscription of a mounted view whose working dataset and   *)
(* cache are loaded.  Timers are untimed: a pending timer fires at any     *)
(* later step unless it is cleared.  supabase.channel() is taken not to    *)
(* throw, and a removed channel to report nothing.                         *)
(***************************************************************************)
\* handleError calls
MaxFails == 6
\* notifications the channel handler receives
MaxRecv == 2

maxRetries == 5
baseRetryDelay == 1000

\* subscribe(), enabled: a new channel is opened and put in channelRef
subscribe(h) == [h EXCEPT !.channelRef = TRUE, !.nChannels = @ + 1]

\* unsubscribe(): remove the channel in channelRef, clear the retry timer in
\* retryTimeoutRef and the debounce timer (pending: one was pending)
unsubscribe(h, pending) ==
  [h EXCEPT !.nChannels = IF h.channelRef THEN @ - 1 ELSE @,
            !.channelRef = FALSE,
            !.retryTimeout = 0,
            !.cleared = @ \/ pending]

\* handleError(error): onError, then a retry timer unless maxRetries is
\* reached; the timer that retryTimeoutRef held stays pending
handleError(h) ==
  IF h.retryCount < maxRetries
  THEN [h EXCEPT !.nErrors = @ + 1,
                 !.strays = IF h.retryTimeout # 0 THEN @ + 1 ELSE @,
                 !.retryTimeout = baseRetryDelay * (2 ^ h.retryCount),
                 !.retryCount = @ + 1]
  ELSE [h EXCEPT !.nErrors = @ + 1, !.terminal = TRUE]

\* mutant: SUBSCRIBED leaves the retry counter alone
OnStatus_NoReset(h, status) ==
  CASE status = "SUBSCRIBED" -> [h EXCEPT !.lastStatus = status]
    [] status \in {"CHANNEL_ERROR", "TIMED_OUT"} ->
         handleError([h EXCEPT !.lastStatus = status])
    [] OTHER -> [h EXCEPT !.lastStatus = status]

\* the callback passed to channel.subscribe
OnStatus(h, status) ==
  CASE status = "SUBSCRIBED" ->
         [h EXCEPT !.lastStatus = status, !.retryCount = 0, !.terminal = FALSE]
    [] status \in {"CHANNEL_ERROR", "TIMED_OUT"} ->
         handleError([h EXCEPT !.lastStatus = status])
    [] OTHER -> [h EXCEPT !.lastStatus = status]

Statuses == {"SUBSCRIBED", "CHANNEL_ERROR", "TIMED_OUT", "CLOSED"}

\* the working dataset and the cache entry of the view
HookBase == Some(<<Rec(1, 0), Rec(2, 0)>>)
\* the notifications: a new row, a new version of either row, a row deleted
HookEvents ==
  { Payload("INSERT", TRUE, Rec(3, 0), FALSE, NoRecord),
    Payload("UPDATE", TRUE, Rec(1, 1), TRUE, [id |-> 1]),
    Payload("UPDATE", TRUE, Rec(2, 1), TRUE, [id |-> 2]),
    DeletePayload(2) }

InitHook ==
  /\ InitView /\ IdleMerge /\ IdlePage /\ IdleHook /\ IdleFallback
  /\ torn = FALSE /\ filterFetch = "none"
  /\ remote = <<>>
  /\ mounted = FALSE
  /\ nJobs = MaxJobs
  /\ allTextures = HookBase
  /\ cache = HookBase

\* what a hook action leaves alone
HookUnchanged ==
  UNCHANGED <<remote, nEvents, contentType, allTextures, cache, preloadLoading,
              preloadLoaded, preloadTotal, aborted, jobs, nJobs, clearing, fin,
              disp, deleted, mvars, storeDown, pvars, fvars, filterFetch>>

\* the effects of the first render: subscribe(); then the re-subscribe
\* effect, unsubscribe(); subscribe()
HookMount ==
  /\ ~mounted /\ ~torn
  /\ mounted' = TRUE
  /\ hook' = subscribe(unsubscribe(subscribe(hook), debounce.pending))
  /\ debounce' = NoTimer
  /\ UNCHANGED <<torn, rcvd, winStart>>
  /\ HookUnchanged

\* the channel in channelRef reports a status
ChannelStatus(status) ==
  /\ hook.channelRef
  /\ status \in {"CHANNEL_ERROR", "TIMED_OUT"} => hook.nErrors < MaxFails
  /\ hook' = OnStatus(hook, status)
  /\ UNCHANGED <<mounted, torn, debounce, rcvd, winStart>>
  /\ HookUnchanged

\* the channel handler: the debounce of the notification's kind, then
\* retryCountRef.current = 0
HookReceive(p) ==
  /\ hook.channelRef
  /\ Len(rcvd) < MaxRecv
  /\ CASE p.eventType = "INSERT" -> debouncedInsert(p)
       [] p.eventType = "UPDATE" -> debouncedUpdate(p)
       [] p.eventType = "DELETE" -> debouncedDelete(p)
       [] OTHER -> UNCHANGED debounce
  /\ hook' = [hook EXCEPT !.retryCount = 0, !.terminal = FALSE]
  /\ rcvd' = Append(rcvd, p)
  /\ winStart' = IF debounce.pending THEN winStart ELSE Len(rcvd) + 1
  /\ UNCHANGED <<mounted, torn>>
  /\ HookUnchanged

\* the retry timer in retryTimeoutRef fires: unsubscribe(); subscribe()
RetryFire ==
  /\ hook.retryTimeout # 0
  /\ hook' = subscribe(unsubscribe([hook EXCEPT !.nRetries = @ + 1], debounce.pending))
  /\ debounce' = NoTimer
  /\ UNCHANGED <<mounted, torn, rcvd, winStart>>
  /\ HookUnchanged

\* a retry timer that retryTimeoutRef no longer holds fires
StrayRetryFire ==
  /\ hook.strays > 0
  /\ hook' = subscribe(unsubscribe([hook EXCEPT !.nRetries = @ + 1, !.strays = @ - 1],
                                   debounce.pending))
  /\ debounce' = NoTimer
  /\ UNCHANGED <<mounted, torn, rcvd, winStart>>
  /\ HookUnchanged

\* the view re-renders: its callbacks are new functions, so the effect on
\* [onInsert, onUpdate, onDelete, onError] runs unsubscribe(); subscribe()
ResubscribeEffect ==
  /\ mounted
  /\ hook' = subscribe(unsubscribe(hook, debounce.pending))
  /\ debounce' = NoTimer
  /\ UNCHANGED <<mounted, torn, rcvd, winStart>>
  /\ HookUnchanged

\* the view unmounts: the first effect's cleanup runs unsubscribe()
HookUnmount ==
  /\ mounted
  /\ mounted' = FALSE
  /\ torn' = TRUE
  /\ hook' = unsubscribe(hook, debounce.pending)
  /\ debounce' = NoTimer
  /\ UNCHANGED <<rcvd, winStart>>
  /\ HookUnchanged

NextHook ==
  \/ HookMount
  \/ \E status \in Statuses : ChannelStatus(status)
  \/ \E p \in HookEvents : HookReceive(p)
  \/ DebounceFire
  \/ RetryFire
  \/ StrayRetryFire
  \/ ResubscribeEffect
  \/ HookUnmount

SpecHook == InitHook /\ [][NextHook]_vars

(***************************************************************************)
(* Claims.                                                                 *)
(***************************************************************************)

\* C1: in every reachable state the working dataset, when it is not null,
\* holds at most one record per id.
C1_AtMostOneRecordPerId ==
  ~allTextures.isNull => DistinctIds(allTextures.items)

\* C2: once a Delete event for record X has been dispatched to a loaded
\* working dataset, X is absent from the working dataset in every later
\* state, unless an Insert event for X is dispatched afterwards.
C2_DeletedStaysAbsent ==
  \A x \in deleted : ~allTextures.isNull => ~HasId(allTextures.items, x)

\* number of positions of s that hold exactly the record r
Occ(s, r) == Cardinality({k \in 1..Len(s) : s[k] = r})
\* t is s without the records of id x: those are gone, every other record
\* is there as often as before, and nothing was added
Removed(s, t, x) ==
  /\ ~HasId(t, x)
  /\ \A k \in 1..Len(s) : s[k].id # x => Occ(t, s[k]) = Occ(s, s[k])
  /\ Len(t) = Len(s) - Copies(s, x)
IsDelete(p) == p.eventType = "DELETE" /\ p.hasOld
IsInsert(p) == p.eventType = "INSERT" /\ p.hasNew
IsUpdate(p) == p.eventType = "UPDATE" /\ p.hasNew

\* C3: when the working dataset is loaded and contains X, the dispatch of a
\* Delete event for X removes X from the working dataset and from the
\* result of the cache's read-modify-write; every other record stays in
\* both.
C3_DeleteDispatchRemoves ==
  [][ (/\ disp'.n # disp.n
       /\ IsDelete(debounce.payload)
       /\ ~allTextures.isNull
       /\ HasId(allTextures.items, debounce.payload.old.id))
      => (/\ ~allTextures'.isNull
          /\ Removed(allTextures.items, allTextures'.items, debounce.payload.old.id)
          /\ ~cache'.isNull
          /\ Removed(cache.items, cache'.items, debounce.payload.old.id)) ]_vars

\* a Delete was dispatched to a loaded dataset that held its record and
\* another one, with a cache entry that held it too
C3_Witness ==
  /\ disp.n > 0
  /\ IsDelete(disp.payload)
  /\ ~disp.allBefore.isNull
  /\ HasId(disp.allBefore.items, disp.payload.old.id)
  /\ Len(disp.allBefore.items) > 1
  /\ ~disp.cacheBefore.isNull
  /\ HasId(disp.cacheBefore.items, disp.payload.old.id)
  /\ Len(disp.cacheBefore.items) > 1

\* C4: mergeRealtimeChange is idempotent per event: on a collection with
\* distinct ids, applying an event twice gives the same collection as
\* applying it once, and the same Insert applied twice leaves exactly one
\* copy of its record.
C4_IdempotentPerEvent ==
  (mpc = "twice" /\ evs[2] = evs[1]) =>
    /\ twice = once
    /\ (IsInsert(evs[1]) /\ ~current.isNull) => Copies(twice.items, evs[1].new.id) = 1

\* an Insert of an absent id was applied twice
C4_Witness ==
  /\ mpc = "twice" /\ evs[2] = evs[1]
  /\ IsInsert(evs[1]) /\ ~current.isNull
  /\ ~HasId(current.items, evs[1].new.id)
  /\ Len(twice.items) = Len(current.items) + 1

\* C5: an Update replaces only the record whose id matches; that record
\* takes each field the event supplies and keeps the old value of every
\* other field; the other records and the order are unchanged; with no
\* match the collection is unchanged.
C5_UpdateShallowMerge ==
  (mpc # "start" /\ IsUpdate(evs[1]) /\ ~current.isNull) =>
    LET n == evs[1].new
        old == current.items
        new == once.items
    IN /\ ~once.isNull
       /\ Len(new) = Len(old)
       /\ \A k \in 1..Len(old) :
            IF old[k].id = n.id
            THEN /\ DOMAIN new[k] = DOMAIN old[k] \cup DOMAIN n
                 /\ \A f \in DOMAIN n : new[k][f] = n[f]
                 /\ \A f \in DOMAIN old[k] \ DOMAIN n : new[k][f] = old[k][f]
            ELSE new[k] = old[k]
       /\ (~HasId(old, n.id) => once = current)

\* an Update that supplies v only was applied to a two-record collection
\* whose matching record had another v, and a w that is not the default
C5_Witness ==
  /\ mpc # "start" /\ IsUpdate(evs[1]) /\ ~current.isNull
  /\ DOMAIN evs[1].new = {"id", "v"}
  /\ Len(current.items) = 2
  /\ \E k \in 1..2 : /\ current.items[k].id = evs[1].new.id
                     /\ current.items[k].v # evs[1].new.v
                     /\ current.items[k].w = 1
                     /\ once.items[k].w = 1
                     /\ once.items[k].v = evs[1].new.v

\* C6: a Delete removes the record with the matching id and changes
\* nothing when the id is absent; Insert then Delete for an id the
\* collection did not contain yields the original collection, also when
\* the two notifications pass through the subscription's debounce (in one
\* window or in two).
C6_DeleteAndInsertThenDelete ==
  /\ (mpc # "start" /\ IsDelete(evs[1]) /\ ~current.isNull) =>
       /\ ~once.isNull
       /\ Removed(current.items, once.items, evs[1].old.id)
       /\ (~HasId(current.items, evs[1].old.id) => once = current)
  /\ (/\ IsInsert(evs[1]) /\ evs[2] = DeletePayload(evs[1].new.id)
      /\ ~current.isNull /\ ~HasId(current.items, evs[1].new.id)) =>
       /\ mpc = "twice" => twice = current
       /\ (recv = 2 /\ ~debounce.pending) => allTextures = current

\* Insert then Delete of an absent id were received within one debounce
\* window, which has closed: one callback was invoked; and both were
\* applied directly
C6_Witness ==
  /\ IsInsert(evs[1]) /\ evs[2] = DeletePayload(evs[1].new.id)
  /\ ~current.isNull /\ ~HasId(current.items, evs[1].new.id)
  /\ Len(current.items) > 0
  /\ mpc = "twice"
  /\ recv = 2 /\ ~debounce.pending /\ disp.n = 1 /\ IsDelete(disp.payload)

\* C7: mergeRealtimeChange(null, e) is null for every event kind and
\* payload, and an event dispatched while the working dataset is null
\* leaves it null.
C7_NullStaysNull ==
  current.isNull =>
    /\ mpc # "start" => once.isNull
    /\ mpc = "twice" => twice.isNull
    /\ allTextures.isNull

\* an Insert was applied to null, and dispatched to a null working dataset
C7_Witness ==
  /\ current.isNull /\ IsInsert(evs[1])
  /\ mpc = "twice"
  /\ disp.n > 0 /\ disp.allBefore.isNull /\ IsInsert(disp.payload)

\* C8: at preload completion the published working dataset contains every
\* id of the cached collection read at the start and of the fetched
\* records exactly once, and for an id in both the fetched copy is kept.
C8_MergePrecedence ==
  fin.job # 0 =>
    /\ \A i \in IdsOf(fin.cached) \cup IdsOf(fin.fetched) : Copies(fin.merged, i) = 1
    /\ \A k \in 1..Len(fin.merged) :
         HasId(fin.fetched, fin.merged[k].id) => Occ(fin.fetched, fin.merged[k]) > 0

\* C9: a preload job during which cancelPreload was invoked never writes
\* its partial result to the cache, and the working dataset it publishes
\* holds only the records of the batches it fetched.
C9_CancelKeepsPartialOutOfCache ==
  fin.cancelled =>
    /\ fin.wrote => fin.why = "end"
    /\ IdsOf(fin.merged) \subseteq IdsOf(fin.fetched)

\* C10: at most one preload job is active: a fetchAllTextures call made
\* while another call has not finished issues no count or batch request.
C10_AtMostOnePreloadJob ==
  /\ Cardinality({j \in JobIds : Requesting(jobs[j])}) <= 1
  /\ \A j \in JobIds : jobs[j].overlap => ~Requesting(jobs[j])

\* C11: on a fixed dataset whose filtered and sorted order has N records,
\* after k calls of loadMore() the visible window holds the first
\* min(N, (k+1)*pageSize) records of that order, and hasMoreTextures is
\* false exactly when the window covers all N; by upload date descending
\* the window runs from the newest record down.
C11_PaginationWindow ==
  LET N == Len(sortedTextures)
      W == Min(N, (nLoadMore + 1) * pageSize)
  IN /\ Len(visibleTextures) = W
     /\ \A k \in 1..W : visibleTextures[k] = sortedTextures[k]
     /\ hasMoreTextures = (Len(visibleTextures) < N)
     /\ (sortCategory = "upload_date" /\ sortDirection = "desc") =>
          /\ \A k \in 1..(W - 1) :
               visibleTextures[k].created_at > visibleTextures[k + 1].created_at
          /\ \A k \in 1..W : \A l \in 1..Len(filteredTextures) :
               filteredTextures[l].created_at > visibleTextures[k].created_at
                 => \E m \in 1..W : visibleTextures[m] = filteredTextures[l]

\* three records created out of id order, newest first, page size 2: one
\* loadMore() has extended the window [T3, T2] to [T3, T2, T1]
C11_Witness ==
  /\ Len(allTextures.items) = 3 /\ filteredTextures = allTextures.items
  /\ allTextures.items[1].created_at > allTextures.items[3].created_at
  /\ allTextures.items[1].created_at < allTextures.items[2].created_at
  /\ sortCategory = "upload_date" /\ sortDirection = "desc"
  /\ nLoadMore = 1 /\ currentPageTextures = 1
  /\ [k \in 1..3 |-> visibleTextures[k].id] = <<2, 1, 3>>
  /\ ~hasMoreTextures

\* C12: every subscription failure invokes the error callback and then
\* schedules a reconnect after baseRetryDelay * 2^retryCount (1 s, 2 s, 4 s,
\* 8 s, 16 s), the retry count never exceeds maxRetries, and a failure at
\* maxRetries schedules no reconnect; from then on, with no success in
\* between, no reconnect happens.
C12_RetryBackoff ==
  /\ [](hook.retryCount <= maxRetries)
  /\ [][ hook'.nErrors # hook.nErrors =>
           /\ hook'.nErrors = hook.nErrors + 1
           /\ IF hook.retryCount < maxRetries
              THEN /\ hook'.retryTimeout = baseRetryDelay * (2 ^ hook.retryCount)
                   /\ hook'.retryTimeout \in {1000, 2000, 4000, 8000, 16000}
                   /\ hook'.retryCount = hook.retryCount + 1
              ELSE /\ hook'.retryTimeout = hook.retryTimeout
                   /\ hook'.strays = hook.strays
                   /\ hook'.retryCount = hook.retryCount ]_vars
  /\ [][ hook.terminal => hook'.nRetries = hook.nRetries ]_vars

\* C13: whenever the channel reports SUBSCRIBED the retry counter is zero
\* afterwards, and the next failure is retried with the base delay.
C13_SubscribedResetsRetries ==
  /\ [](hook.lastStatus = "SUBSCRIBED" => hook.retryCount = 0)
  /\ [][ (hook.lastStatus = "SUBSCRIBED" /\ hook'.nErrors # hook.nErrors)
         => hook'.retryTimeout = baseRetryDelay ]_vars

\* after three failures or more, with no notification received, the last
\* failure was scheduled with the base delay: a SUBSCRIBED came before it
C13_Witness ==
  /\ hook.nErrors >= 3
  /\ rcvd = <<>>
  /\ hook.lastStatus \in {"CHANNEL_ERROR", "TIMED_OUT"}
  /\ hook.retryCount = 1
  /\ hook.retryTimeout = baseRetryDelay

\* C14: notifications of one kind received within one debounce window lead
\* to exactly one invocation of the kind's callback, with the payload of
\* the last of them: a callback is invoked only when the timer fires, once,
\* with the last notification received; and when a window of two
\* notifications of one kind has closed without a teardown, there was one
\* invocation, with the second payload.
C14_SameKindCollapses ==
  /\ [][ disp'.n # disp.n =>
           /\ debounce.pending /\ ~debounce'.pending
           /\ disp'.n = disp.n + 1
           /\ disp'.payload = rcvd[Len(rcvd)] ]_vars
  /\ []((/\ Len(rcvd) = 2 /\ winStart = 1
         /\ rcvd[1].eventType = rcvd[2].eventType
         /\ ~debounce.pending /\ ~hook.cleared)
        => (disp.n = 1 /\ disp.payload = rcvd[2]))

\* two Update notifications with different payloads were received in one
\* window, and the one callback there was got the second
C14_Witness ==
  /\ Len(rcvd) = 2 /\ winStart = 1
  /\ rcvd[1].eventType = "UPDATE" /\ rcvd[2].eventType = "UPDATE"
  /\ rcvd[1] # rcvd[2]
  /\ ~debounce.pending /\ ~hook.cleared
  /\ disp.n = 1 /\ disp.payload = rcvd[2]

\* C15: each kind is debounced on its own: when two notifications of
\* different kinds have been received and no timer is pending (none was
\* cleared by a teardown), both callbacks have been invoked.
C15_KindsDebouncedIndependently ==
  (/\ Len(rcvd) = 2 /\ rcvd[1].eventType # rcvd[2].eventType
   /\ ~debounce.pending /\ ~hook.cleared)
  => disp.n = 2

RECURSIVE ApplyAll(_, _)
ApplyAll(c, ps) ==
  IF ps = <<>> THEN c ELSE ApplyAll(Apply(c, Head(ps)), Tail(ps))

\* C16: no update is missed: when the view is mounted and no debounce timer
\* is pending, the working dataset and the cache entry reflect every
\* notification the channel handler received.
C16_NoUpdateMissed ==
  (mounted /\ ~debounce.pending) =>
    /\ allTextures = ApplyAll(HookBase, rcvd)
    /\ cache = ApplyAll(HookBase, rcvd)

\* C17: the hook has at most one open channel at any time, and after the
\* unmount no channel is open and no debounce or retry timer is pending.
C17_OneChannelAndCleanTeardown ==
  /\ hook.nChannels <= 1
  /\ torn => /\ hook.nChannels = 0
             /\ ~hook.channelRef
             /\ ~debounce.pending
             /\ hook.retryTimeout = 0
             /\ hook.strays = 0

\* a call of fetchAllTextures issues a batch request in this step
IssuesBatch(j) ==
  /\ jobs'[j].pc = "batch"
  /\ jobs[j].pc = "count" \/ jobs'[j].nBatches > jobs[j].nBatches

\* C18: unmounting the view aborts the preload in flight: after the unmount
\* no job issues a batch request, leaves its loop to publish a working
\* dataset, or writes the cache.
C18_UnmountAbortsPreload ==
  [][ torn => /\ \A j \in JobIds : ~IssuesBatch(j)
              /\ fin' = fin
              /\ cache' = cache ]_vars

\* the clear-cache action's two steps
ClearCacheDiscards == ~clearing /\ clearing' => cache'.isNull
ClearCacheResets ==
  clearing /\ ~clearing' =>
    /\ allTextures'.isNull
    /\ preloadLoaded' = 0
    /\ preloadTotal' = -1
    /\ filterFetch' = "handleClearCache"

C20_InputChangeResetsPage ==
  /\ [][ (\/ searchTerm' # searchTerm
          \/ filterCategory' # filterCategory
          \/ sortCategory' # sortCategory
          \/ sortDirection' # sortDirection)
         => currentPageTextures' = 0 ]_vars
  /\ [](nLoadMore = 0 =>
          /\ Len(visibleTextures) = Min(Len(sortedTextures), pageSize)
          /\ \A k \in 1..Len(visibleTextures) :
               visibleTextures[k] = sortedTextures[k])

\* an input was changed on a later page of a dataset of more than a page
C20_Witness ==
  /\ pageBefore > 0
  /\ currentPageTextures = 0
  /\ Len(sortedTextures) > pageSize
  /\ Len(visibleTextures) = pageSize

\* the calls of fetchAllTextures whose batch request is outstanding
OutstandingBatches == {j \in JobIds : jobs[j].pc = "batch"}

\* C22: preload batches are requested strictly sequentially: at any time at
\* most one batch request for textures is outstanding, so the request for
\* the next offset is issued only after the one before it has resolved.
C22_OneBatchOutstanding == Cardinality(OutstandingBatches) <= 1

\* C23: an unexpected close of the channel (the channel in channelRef
\* reports CLOSED, which the hook's own teardown did not cause) is handled
\* like an error: the error callback is invoked and, below maxRetries, a
\* reconnect is scheduled with the backoff delay.
C23_ClosedHandledLikeError ==
  [][ (hook.channelRef /\ hook.lastStatus # "CLOSED" /\ hook'.lastStatus = "CLOSED")
      => /\ hook'.nErrors = hook.nErrors + 1
         /\ hook.retryCount < maxRetries
              => hook'.retryTimeout = baseRetryDelay * (2 ^ hook.retryCount) ]_vars

\* C24: once cancelPreload has set the abort flag during a call of
\* fetchAllTextures, that call issues no further batch request after its
\* in-flight request resolves, even if fetchAllTextures is called again
\* before that.
C24_CancelledJobStopsRequesting ==
  [][ \A j \in JobIds : jobs[j].cancelled => ~IssuesBatch(j) ]_vars

\* C30: a cache clear invoked while a preload job is in flight is not
\* undone by that job: the records the job read from the cache before the
\* clear, and did not fetch again, are neither written back into the cache
\* entry nor published as the working dataset.
C30_ClearNotUndoneByJob ==
  [][ (filterFetch = "handleClearCache" /\ fin' # fin)
      => LET stale == IdsOf(fin'.cached) \ IdsOf(fin'.fetched)
         IN /\ \A x \in stale : ~HasId(allTextures'.items, x)
            /\ ~cache'.isNull => \A x \in stale : ~HasId(cache'.items, x) ]_vars

\* a preload job has completed without abort or fetch error, no call of
\* fetchAllTextures is pending, and no notification awaits its dispatch
PreloadSettled ==
  /\ fin.why = "end" /\ ~fin.cancelled
  /\ \A j \in JobIds : ~Running(jobs[j])
  /\ ~debounce.pending

\* C25: the three sources converge: after a preload job completes without
\* abort or fetch error and every realtime event received so far has been
\* dispatched, the working dataset and the cache entry hold the same set of
\* ids, and that set is the set of ids of the remote collection.
C25_SourcesConverge ==
  PreloadSettled =>
    /\ ~allTextures.isNull /\ ~cache.isNull
    /\ IdsOf(allTextures.items) = IdsOf(cache.items)
    /\ IdsOf(cache.items) = IdsOf(remote)

\* C27: provided every request resolves and the remote collection is
\* finite, every started preload job terminates: a call stays in its batch
\* loop only after a full batch with the abort flag down, every running
\* call ends, and the preload status becomes not loading.
C27_PreloadTerminates ==
  /\ [][ \A j \in JobIds :
           (jobs[j].pc = "batch" /\ jobs'[j].pc = "batch"
            /\ jobs'[j].nBatches > jobs[j].nBatches)
           => /\ Len(jobs'[j].combined) = Len(jobs[j].combined) + batchSize
              /\ ~aborted ]_vars
  /\ \A j \in JobIds : Running(jobs[j]) ~> ~Running(jobs[j])
  /\ preloadLoading ~> ~preloadLoading

\* a call's loop went on after a full batch and ended at the end of the
\* data; no call is pending and the status is not loading
C27_Witness ==
  /\ fin.why = "end" /\ fin.nBatches >= 2
  /\ nJobs > 0
  /\ \A j \in JobIds : ~Running(jobs[j])
  /\ ~preloadLoading

\* the texture's title equals, or contains, the search term, whatever the case
TitleEquals(t) == toLowerCase(t.title) = toLowerCase(searchTerm)
TitleContains(t) == Includes(toLowerCase(t.title), toLowerCase(searchTerm))

\* C26: with the relevance sort and a non-empty search term, a texture
\* whose title equals the term never scores lower than one whose title does
\* not equal it, and one whose title contains the term never scores lower
\* than one whose title does not contain it; the list is in descending
\* order of score, and records of equal score keep their collection order.
C26_RelevanceTiers ==
  (sortCategory = "relevance" /\ searchTerm # <<>>) =>
    LET s == sortedTextures
        score(t) == calculateRelevance(t, searchTerm)
    IN /\ \A i, j \in 1..Len(s) :
            /\ (TitleEquals(s[i]) /\ ~TitleEquals(s[j])) => score(s[i]) >= score(s[j])
            /\ (TitleContains(s[i]) /\ ~TitleContains(s[j])) => score(s[i]) >= score(s[j])
       /\ \A i, j \in 1..Len(s) :
            i < j => /\ score(s[i]) >= score(s[j])
                     /\ score(s[i]) = score(s[j]) => s[i].id < s[j].id

\* C21: loadMore() increments currentPageTextures by one when there is more
\* to show; with a working dataset it issues no remote request; with only
\* the fallback list, no page request pending and more records at the
\* server than are loaded, it issues the fetch of the next remote page.
C21_LoadMoreFrame ==
  [][ nLoadMore' = nLoadMore + 1 =>
        /\ ~allTextures.isNull =>
             /\ pageReqs' = pageReqs
             /\ Len(filteredTextures) > Len(visibleTextures)
                  => currentPageTextures' = currentPageTextures + 1
        /\ (/\ allTextures.isNull /\ textures # <<>>
            /\ ~loadingMore /\ pageReqs = {}
            /\ Len(remote) > Len(textures))
             => /\ currentPageTextures' = currentPageTextures + 1
                /\ PageReq(currentPageTextures + 1, TRUE) \in pageReqs' ]_vars

\* C29: while the working dataset is null on the textures view the view
\* falls back to paginated data: after a start with an empty cache the
\* first page has been requested or is loaded, whenever the remote
\* collection is not empty.
C29_FallbackFirstPage ==
  (/\ mounted /\ contentType = "textures"
   /\ filterFetch = "mount"
   /\ allTextures.isNull /\ cache.isNull
   /\ remote # <<>>)
    => \/ textures # <<>>
       \/ PageReq(0, FALSE) \in pageReqs

\* C28: a cache-store failure is soft: when the cache read at the start of
\* a call of fetchAllTextures fails the call goes on to its remote
\* requests, and a call that leaves its batch loop publishes the records it
\* fetched as the working dataset, whether or not the cache write fails.
C28_CacheFailureSoft ==
  [][ \A j \in JobIds :
        /\ (jobs[j].pc = "getCache" /\ jobs'[j].pc # "getCache" /\ ~jobs[j].closLoaded)
             => Requesting(jobs'[j])
        /\ (fin' # fin /\ fin'.job = j)
             => /\ ~allTextures'.isNull
                /\ IdsOf(fin'.fetched) \subseteq IdsOf(allTextures'.items) ]_vars

=============================================================================
